---- MODULE Spec2Model ----
(***************************************************************************)
(* Model of src/server.js: the in-memory wagering backend (users, bets and *)
(* transactions maps, and the express handlers that read and write them).  *)
(*                                                                         *)
(* Node runs every handler to completion on one event loop.  The handlers  *)
(* for /api/bets/place, /api/transactions/deposit, /api/transactions/      *)
(* withdraw and /api/bets/history contain no await, so each of them is one *)
(* action: concurrent requests are interleaved handler by handler.  The    *)
(* register handler awaits bcrypt.hash and is therefore two actions.       *)
(*                                                                         *)
(* Money: processWheelGame multiplies a stake by 1.5, so amounts are not   *)
(* always whole Kwanzas.  Every amount of the model is a count of half     *)
(* Kwanzas (Kz(n) is n Kwanzas); with whole-Kwanza requests every value    *)
(* the code computes is a multiple of one half and is exact in a double.   *)
(*                                                                         *)
(* Request bodies carry numbers where the code compares numbers (the       *)
(* transport's type check is outside the engine); an absent or optional    *)
(* field is the empty sequence <<>>, a present one the sequence <<v>>.     *)
(* generateId() is taken to return a fresh id, so a Map is the sequence of *)
(* its values in insertion order and an id is the index.                   *)
(***************************************************************************)
EXTENDS Integers, Sequences, FiniteSets, Bags, TLC

VARIABLES users, transactions, bets, hashing, now, res

vars == <<users, transactions, bets, hashing, now, res>>

-----------------------------------------------------------------------------
(* Bound of the model: the records the stores hold in all, that is the     *)
(* accounts (with the registrations in flight), the bets and the           *)
(* transactions.                                                           *)
MaxRecords == 3

(* Amounts are counted in half Kwanzas. *)
Kz(n) == 2 * n

(* Program constants *)
WelcomeBonus == Kz(100000)
MinBet == Kz(100)
MinDeposit == Kz(1000)
MinWithdraw == Kz(1000)
HistoryLimit == 50

Games == {"numbers", "slots", "wheel", "coin"}

MsgRequired == "Todos os campos sao obrigatorios"
MsgExists == "Email ou telefone ja cadastrado"
MsgCreated == "Conta criada com sucesso!"
MsgMinBet == "Valor minimo de aposta: 100 Kz"
MsgInsufficient == "Saldo insuficiente"
MsgInvalidGame == "Jogo invalido"
MsgBetError == "Erro ao processar aposta"
MsgMinDeposit == "Valor minimo de deposito: 1.000 Kz"
MsgDepositOk == "Deposito confirmado!"
MsgMinWithdraw == "Valor minimo de levantamento: 1.000 Kz"
MsgDestination == "IBAN e nome do titular sao obrigatorios"
MsgWithdrawOk == "Pedido de levantamento enviado!"

-----------------------------------------------------------------------------
(* Request inputs *)

RegInputs ==
    { [name |-> <<"n">>, email |-> <<"a">>, phone |-> <<"p">>, password |-> <<"w">>],
      [name |-> <<"n">>, email |-> <<"b">>, phone |-> <<"q">>, password |-> <<"w">>],
      [name |-> <<"n">>, email |-> <<>>, phone |-> <<"p">>, password |-> <<"w">>] }

GameTags == Games \cup {"poker"}
BetAmounts == {Kz(99), Kz(101)}
GameDatas ==
    { <<>>,
      <<[selectedNumber |-> <<7>>, choice |-> <<"heads">>]>>,
      <<[selectedNumber |-> <<26>>, choice |-> <<"edge">>]>>,
      <<[selectedNumber |-> <<>>, choice |-> <<>>]>> }
(* Only numbers and coin read gameData: the other games are sent without. *)
BetRequests ==
    { r \in [game : GameTags, gameData : GameDatas] :
        r.game \in {"numbers", "coin"} \/ r.gameData = <<>> }
DepositAmounts == {Kz(999), Kz(1000)}
WithdrawAmounts == {Kz(999), Kz(100000)}
Destinations == { [iban |-> <<"AO06">>, accountName |-> <<"n">>],
                  [iban |-> <<>>, accountName |-> <<"n">>] }
(* Milliseconds elapsed between the stamping of one record and the next. *)
Elapsed == {0, 1}

-----------------------------------------------------------------------------
(* Game logic functions.  The last parameter of each is what Math.random   *)
(* drew.                                                                   *)

(* Variant: a game of 25 numbers paying 25 times the stake. *)
processNumbersGame_Pays25(betAmount, gameData, winningNumber) ==
    LET selectedNumber == gameData.selectedNumber
        won == <<winningNumber>> = selectedNumber
        prize == IF won THEN betAmount * 25 ELSE 0
    IN  [won |-> won, prize |-> prize,
         winningNumber |-> winningNumber, selectedNumber |-> selectedNumber]

processNumbersGame(betAmount, gameData, winningNumber) ==
    LET selectedNumber == gameData.selectedNumber
        won == <<winningNumber>> = selectedNumber
        prize == IF won THEN betAmount * 24 ELSE 0
    IN  [won |-> won, prize |-> prize,
         winningNumber |-> winningNumber, selectedNumber |-> selectedNumber]

symbols == <<"cherry", "lemon", "orange", "grape", "diamond", "star", "seven">>

processSlotsGame(betAmount, draws) ==
    LET result1 == symbols[draws[1] + 1]
        result2 == symbols[draws[2] + 1]
        result3 == symbols[draws[3] + 1]
        won == result1 = result2 /\ result2 = result3
        prize == IF won THEN betAmount * 10 ELSE 0
    IN  [won |-> won, prize |-> prize, symbols |-> <<result1, result2, result3>>]

(* The multipliers [2, 0, 1.5, 0, 3, 0, 5, 0], each written as twice its value. *)
prizes == <<4, 0, 3, 0, 6, 0, 10, 0>>

(* Variant: the multiplier read one segment further round the wheel. *)
processWheelGame_NextSegment(betAmount, prizeIndex) ==
    LET multiplier == prizes[((prizeIndex + 1) % Len(prizes)) + 1]
        won == multiplier > 0
        prize == (betAmount * multiplier) \div 2
    IN  [won |-> won, prize |-> prize, multiplier |-> multiplier,
         segment |-> prizeIndex]

processWheelGame(betAmount, prizeIndex) ==
    LET multiplier == prizes[prizeIndex + 1]
        won == multiplier > 0
        prize == (betAmount * multiplier) \div 2
    IN  [won |-> won, prize |-> prize, multiplier |-> multiplier,
         segment |-> prizeIndex]

processCoinGame(betAmount, gameData, flip) ==
    LET choice == gameData.choice
        won == choice = <<flip>>
        prize == IF won THEN betAmount * 2 ELSE 0
    IN  [won |-> won, prize |-> prize, result |-> flip, choice |-> choice]

(* Reading gameData.selectedNumber or gameData.choice of an undefined      *)
(* gameData throws a TypeError, which the handler's catch turns into 500.  *)
ResolverThrows(game, gameData) ==
    game \in {"numbers", "coin"} /\ gameData = <<>>

(* What the bet handler reads of a result; the game payload goes only to   *)
(* the response and to resultData.                                         *)
Settled(result) == [won |-> result.won, prize |-> result.prize]

(* The results the switch of the bet handler can produce for a request. *)
Resolve(game, betAmount, gameData) ==
    CASE game = "numbers" ->
            { Settled(processNumbersGame(betAmount, gameData[1], w)) : w \in 1..25 }
      [] game = "slots" ->
            { Settled(processSlotsGame(betAmount, d)) :
                d \in (0..6) \X (0..6) \X (0..6) }
      [] game = "wheel" ->
            { Settled(processWheelGame(betAmount, i)) : i \in 0..7 }
      [] game = "coin" ->
            { Settled(processCoinGame(betAmount, gameData[1], f)) :
                f \in {"heads", "tails"} }
      (* let result = {}: no case of the switch assigned it *)
      [] OTHER -> { [won |-> FALSE, prize |-> 0] }

-----------------------------------------------------------------------------
(* Helpers of the handlers *)

Present(field) == field # <<>>

(* Variant: the identifier of the new record is that of the latest one, so *)
(* that the set replaces it.                                               *)
MapSet_SameKey(log, record) ==
    IF log = <<>> THEN <<record>> ELSE [log EXCEPT ![Len(log)] = record]

(* bets.set(betId, betRecord), transactions.set(transactionId, transaction) *)
(* under a key that generateId has just made: a new entry, last in the     *)
(* order of insertion.                                                     *)
MapSet(log, record) == Append(log, record)

Respond(op, status, message) ==
    res' = [op |-> op, status |-> status, message |-> message]

NewUser(userId, input) ==
    [id |-> userId, email |-> input.email[1], phone |-> input.phone[1],
     balance |-> WelcomeBonus, totalBet |-> 0, totalWon |-> 0, totalBets |-> 0]

ExistingUser(input) ==
    \E k \in 1..Len(users) :
        users[k].email = input.email[1] \/ users[k].phone = input.phone[1]

BelowMinBet(betAmount) == betAmount < MinBet

(* Variant: the switch without its default branch. *)
Recognized_NoDefault(game) == TRUE

(* The cases of the switch; every other tag takes the default branch. *)
Recognized(game) == game \in Games

(* Variant: the balance check left out. *)
ExceedsBalance_Never(amount, user) == FALSE

(* Variant: the check made against the balance the account was opened with, *)
(* not the balance it has now.                                             *)
ExceedsBalance_Stale(amount, user) == amount > WelcomeBonus

ExceedsBalance(amount, user) == amount > user.balance

(* Variant: the prize is counted in totalWon but never credited. *)
SettleBet_LostCredit(user, betAmount, result) ==
    [user EXCEPT
        !.balance = @ - betAmount,
        !.totalBet = @ + betAmount,
        !.totalBets = @ + 1,
        !.totalWon = @ + (IF result.won THEN result.prize ELSE 0)]

(* Variant: totalBets is counted in the branch of a win only. *)
SettleBet_CountsWins(user, betAmount, result) ==
    [user EXCEPT
        !.balance = (@ - betAmount) + (IF result.won THEN result.prize ELSE 0),
        !.totalBet = @ + betAmount,
        !.totalBets = @ + (IF result.won THEN 1 ELSE 0),
        !.totalWon = @ + (IF result.won THEN result.prize ELSE 0)]

(* user.balance -= betAmount ... user.totalWon += result.prize *)
SettleBet(user, betAmount, result) ==
    [user EXCEPT
        !.balance = (@ - betAmount) + (IF result.won THEN result.prize ELSE 0),
        !.totalBet = @ + betAmount,
        !.totalBets = @ + 1,
        !.totalWon = @ + (IF result.won THEN result.prize ELSE 0)]

(* The record keeps what the ledger and the history read; game, gameData   *)
(* and the game payload of resultData are left out of it.                  *)
(* Variant: the record is filed under the first account of the store and  *)
(* not under the account of the session.                                   *)
BetRecord_FirstAccount(user, game, betAmount, result, timestamp) ==
    [userId |-> users[1].id, betAmount |-> betAmount,
     result |-> IF result.won THEN result.prize ELSE 0 - betAmount,
     won |-> result.won, prize |-> result.prize, timestamp |-> timestamp]

BetRecord(user, game, betAmount, result, timestamp) ==
    [userId |-> user.id, betAmount |-> betAmount,
     result |-> IF result.won THEN result.prize ELSE 0 - betAmount,
     won |-> result.won, prize |-> result.prize, timestamp |-> timestamp]

(* Variant: the minimum itself refused (<= for <). *)
BelowMinDeposit_Inclusive(amount) == amount <= MinDeposit

BelowMinDeposit(amount) == amount < MinDeposit

(* Variant: the deposit is recorded and the balance left as it was. *)
Credit_NotApplied(user, amount) == user

Credit(user, amount) == [user EXCEPT !.balance = @ + amount]

BelowMinWithdraw(amount) == amount < MinWithdraw

Debit(user, amount) == [user EXCEPT !.balance = @ - amount]

TransactionRecord(user, type, amount, status, timestamp) ==
    [userId |-> user.id, type |-> type, amount |-> amount, status |-> status,
     timestamp |-> timestamp]

(* What new Date() can return: the clock of the previous record, or later. *)
Date == { now + elapsed : elapsed \in Elapsed }

(* Room for one more record in the stores. *)
RoomForRecord ==
    Len(users) + BagCardinality(hashing) + Len(bets) + Len(transactions) < MaxRecords

-----------------------------------------------------------------------------
(* Bet history: filter, stable sort by timestamp descending, slice(0, 50) *)

BetsOf(userId) == SelectSeq(bets, LAMBDA bet : bet.userId = userId)

(* Where the sort puts record i of s: behind every record with a later     *)
(* timestamp and, the sort being stable, behind the records of the same    *)
(* timestamp that come before it in s.                                     *)
SortedPosition(s, i) ==
    Cardinality({ j \in 1..Len(s) :
                    \/ s[j].timestamp > s[i].timestamp
                    \/ s[j].timestamp = s[i].timestamp /\ j < i }) + 1

(* .sort((a, b) => b.timestamp - a.timestamp) *)
SortByTimestampDesc(s) ==
    [p \in 1..Len(s) |-> s[CHOOSE i \in 1..Len(s) : SortedPosition(s, i) = p]]

Slice(s, limit) == SubSeq(s, 1, IF Len(s) < limit THEN Len(s) ELSE limit)

BetHistory(userId) == Slice(SortByTimestampDesc(BetsOf(userId)), HistoryLimit)

(* Array.from(transactions.values()).filter(...) *)
TransactionsOf(userId) == SelectSeq(transactions, LAMBDA t : t.userId = userId)

TransactionHistory(userId) == SortByTimestampDesc(TransactionsOf(userId))

-----------------------------------------------------------------------------
Init ==
    /\ users = <<>>
    /\ transactions = <<>>
    /\ bets = <<>>
    /\ hashing = EmptyBag
    /\ now = 0
    /\ res = [op |-> "none", status |-> 0, message |-> ""]

(* POST /api/auth/register, up to the await of bcrypt.hash *)
Register(input) ==
    /\ IF ~(Present(input.name) /\ Present(input.email)
            /\ Present(input.phone) /\ Present(input.password))
       THEN /\ Respond("register", 400, MsgRequired)
            /\ UNCHANGED hashing
       ELSE IF ExistingUser(input)
       THEN /\ Respond("register", 400, MsgExists)
            /\ UNCHANGED hashing
       ELSE /\ RoomForRecord
            /\ hashing' = hashing (+) SetToBag({input})
            /\ UNCHANGED res
    /\ UNCHANGED <<users, transactions, bets, now>>

(* POST /api/auth/register, from the resolution of bcrypt.hash on *)
RegisterHashed(input) ==
    /\ BagIn(input, hashing)
    /\ hashing' = hashing (-) SetToBag({input})
    /\ users' = Append(users, NewUser(Len(users) + 1, input))
    /\ Respond("register", 200, MsgCreated)
    /\ UNCHANGED <<transactions, bets, now>>

(* Variant: the stake is debited before the switch, so that the default    *)
(* branch and a throwing resolver leave the debit behind.                  *)
PlaceBet_DebitFirst(u, game, betAmount, gameData) ==
    /\ u \in 1..Len(users)
    /\ LET user == users[u]
           debited == [users EXCEPT ![u] = Debit(user, betAmount)] IN
       IF BelowMinBet(betAmount)
       THEN /\ Respond("placeBet", 400, MsgMinBet)
            /\ UNCHANGED <<users, bets, now>>
       ELSE IF ExceedsBalance(betAmount, user)
       THEN /\ Respond("placeBet", 400, MsgInsufficient)
            /\ UNCHANGED <<users, bets, now>>
       ELSE IF ~Recognized(game)
       THEN /\ Respond("placeBet", 400, MsgInvalidGame)
            /\ users' = debited
            /\ UNCHANGED <<bets, now>>
       ELSE IF ResolverThrows(game, gameData)
       THEN /\ Respond("placeBet", 500, MsgBetError)
            /\ users' = debited
            /\ UNCHANGED <<bets, now>>
       ELSE /\ RoomForRecord
            /\ \E result \in Resolve(game, betAmount, gameData) :
                 /\ users' = [users EXCEPT ![u] = SettleBet(user, betAmount, result)]
                 /\ now' \in Date
                 /\ bets' = MapSet(bets, BetRecord(user, game, betAmount, result, now'))
                 /\ Respond("placeBet", 200, "")
    /\ UNCHANGED <<transactions, hashing>>

(* POST /api/bets/place *)
PlaceBet(u, game, betAmount, gameData) ==
    /\ u \in 1..Len(users)
    /\ LET user == users[u] IN
       IF BelowMinBet(betAmount)
       THEN /\ Respond("placeBet", 400, MsgMinBet)
            /\ UNCHANGED <<users, bets, now>>
       ELSE IF ExceedsBalance(betAmount, user)
       THEN /\ Respond("placeBet", 400, MsgInsufficient)
            /\ UNCHANGED <<users, bets, now>>
       ELSE IF ~Recognized(game)
       THEN /\ Respond("placeBet", 400, MsgInvalidGame)
            /\ UNCHANGED <<users, bets, now>>
       ELSE IF ResolverThrows(game, gameData)
       THEN /\ Respond("placeBet", 500, MsgBetError)
            /\ UNCHANGED <<users, bets, now>>
       ELSE /\ RoomForRecord
            /\ \E result \in Resolve(game, betAmount, gameData) :
                 /\ users' = [users EXCEPT ![u] = SettleBet(user, betAmount, result)]
                 /\ now' \in Date
                 /\ bets' = MapSet(bets, BetRecord(user, game, betAmount, result, now'))
                 /\ Respond("placeBet", 200, "")
    /\ UNCHANGED <<transactions, hashing>>

(* POST /api/transactions/deposit *)
Deposit(u, amount) ==
    /\ u \in 1..Len(users)
    /\ LET user == users[u] IN
       IF BelowMinDeposit(amount)
       THEN /\ Respond("deposit", 400, MsgMinDeposit)
            /\ UNCHANGED <<users, transactions, now>>
       ELSE /\ RoomForRecord
            /\ users' = [users EXCEPT ![u] = Credit(user, amount)]
            /\ now' \in Date
            /\ transactions' = MapSet(transactions,
                    TransactionRecord(user, "deposit", amount, "completed", now'))
            /\ Respond("deposit", 200, MsgDepositOk)
    /\ UNCHANGED <<bets, hashing>>

(* POST /api/transactions/withdraw *)
Withdraw(u, amount, destination) ==
    /\ u \in 1..Len(users)
    /\ LET user == users[u] IN
       IF BelowMinWithdraw(amount)
       THEN /\ Respond("withdraw", 400, MsgMinWithdraw)
            /\ UNCHANGED <<users, transactions, now>>
       ELSE IF ExceedsBalance(amount, user)
       THEN /\ Respond("withdraw", 400, MsgInsufficient)
            /\ UNCHANGED <<users, transactions, now>>
       ELSE IF ~(Present(destination.iban) /\ Present(destination.accountName))
       THEN /\ Respond("withdraw", 400, MsgDestination)
            /\ UNCHANGED <<users, transactions, now>>
       ELSE /\ RoomForRecord
            /\ users' = [users EXCEPT ![u] = Debit(user, amount)]
            /\ now' \in Date
            /\ transactions' = MapSet(transactions,
                    TransactionRecord(user, "withdraw", amount, "pending", now'))
            /\ Respond("withdraw", 200, MsgWithdrawOk)
    /\ UNCHANGED <<bets, hashing>>

(* The answers of the three reading handlers for the account at u. *)
BalanceAnswer(u) ==
    [op |-> "balance", status |-> 200, message |-> "", userId |-> users[u].id,
     balance |-> users[u].balance, totalBet |-> users[u].totalBet,
     totalWon |-> users[u].totalWon, totalBets |-> users[u].totalBets]

BetHistoryAnswer(u) ==
    [op |-> "betHistory", status |-> 200, message |-> "",
     userId |-> users[u].id, bets |-> BetHistory(users[u].id)]

TransactionHistoryAnswer(u) ==
    [op |-> "transactionHistory", status |-> 200, message |-> "",
     userId |-> users[u].id, transactions |-> TransactionHistory(users[u].id)]

(* GET /api/user/balance *)
GetBalance(u) ==
    /\ u \in 1..Len(users)
    /\ res' = BalanceAnswer(u)
    /\ UNCHANGED <<users, transactions, bets, hashing, now>>

(* Variant: the sort is applied to the stored log itself and not to the    *)
(* filtered copy, so that reading the history reorders the log.            *)
GetBetHistory_SortInPlace(u) ==
    /\ u \in 1..Len(users)
    /\ bets' = SortByTimestampDesc(bets)
    /\ res' = BetHistoryAnswer(u)
    /\ UNCHANGED <<users, transactions, hashing, now>>

(* GET /api/bets/history *)
GetBetHistory(u) ==
    /\ u \in 1..Len(users)
    /\ res' = BetHistoryAnswer(u)
    /\ UNCHANGED <<users, transactions, bets, hashing, now>>

(* GET /api/transactions/history *)
GetTransactionHistory(u) ==
    /\ u \in 1..Len(users)
    /\ res' = TransactionHistoryAnswer(u)
    /\ UNCHANGED <<users, transactions, bets, hashing, now>>

Next ==
    \/ \E input \in RegInputs : Register(input)
    \/ \E input \in RegInputs : RegisterHashed(input)
    \/ \E u \in 1..Len(users), r \in BetRequests, betAmount \in BetAmounts :
            PlaceBet(u, r.game, betAmount, r.gameData)
    \/ \E u \in 1..Len(users), amount \in DepositAmounts : Deposit(u, amount)
    \/ \E u \in 1..Len(users), amount \in WithdrawAmounts,
          destination \in Destinations :
            Withdraw(u, amount, destination)
    \/ \E u \in 1..Len(users) : GetBalance(u)
    \/ \E u \in 1..Len(users) : GetBetHistory(u)
    \/ \E u \in 1..Len(users) : GetTransactionHistory(u)

Spec == Init /\ [][Next]_vars

-----------------------------------------------------------------------------
(* The server when the bets Map can run out of room: bets.set then throws  *)
(* a RangeError, after the lines that update the user have run, and the    *)
(* catch of the handler answers.  Spec above is the server while the Map   *)
(* has room.                                                               *)

RECURSIVE SumTotalBets(_)
SumTotalBets(k) == IF k = 0 THEN 0 ELSE users[k].totalBets + SumTotalBets(k - 1)

(* The bets the ledgers count and the log does not hold.  One failure of  *)
(* the store is followed per run.                                          *)
Unlogged == SumTotalBets(Len(users)) - Len(bets)

(* POST /api/bets/place, bets.set throwing *)
PlaceBetStorageFailure(u, game, betAmount, gameData) ==
    /\ u \in 1..Len(users)
    /\ LET user == users[u] IN
       /\ ~BelowMinBet(betAmount)
       /\ ~ExceedsBalance(betAmount, user)
       /\ Recognized(game)
       /\ ~ResolverThrows(game, gameData)
       /\ RoomForRecord
       /\ Unlogged = 0
       /\ \E result \in Resolve(game, betAmount, gameData) :
            users' = [users EXCEPT ![u] = SettleBet(user, betAmount, result)]
       /\ Respond("placeBet", 500, MsgBetError)
    /\ UNCHANGED <<transactions, bets, hashing, now>>

StorageNext ==
    \/ Next
    \/ \E u \in 1..Len(users), r \in BetRequests, betAmount \in BetAmounts :
            PlaceBetStorageFailure(u, r.game, betAmount, r.gameData)

StorageSpec == Init /\ [][StorageNext]_vars

-----------------------------------------------------------------------------
(* The server with the bet handler taken one block at a time.  While the   *)
(* handler runs, res holds its frame: the request, the block it has        *)
(* reached and the result once drawn.  The handler has no await, so Node   *)
(* runs it to its response before any other handler or continuation: the   *)
(* other actions wait for the frame to be answered.                        *)

NoResult == <<>>

BetFrame(state, u, game, betAmount, gameData, result) ==
    [op |-> "placeBet", status |-> 0, message |-> "", state |-> state,
     u |-> u, game |-> game, betAmount |-> betAmount, gameData |-> gameData,
     result |-> result]

BetAnswer(state, status, message) ==
    [op |-> "placeBet", status |-> status, message |-> message, state |-> state]

BetRunning == res.op = "placeBet" /\ res.status = 0

BetAt(state) == BetRunning /\ res.state = state

(* The handler is entered: lines 229-239. *)
BetReceived(u, game, betAmount, gameData) ==
    /\ ~BetRunning
    /\ u \in 1..Len(users)
    /\ RoomForRecord
    /\ res' = BetFrame("Validating", u, game, betAmount, gameData, NoResult)
    /\ UNCHANGED <<users, transactions, bets, hashing, now>>

(* Lines 241-254: the two checks on the stake. *)
BetValidating ==
    /\ BetAt("Validating")
    /\ res' = IF BelowMinBet(res.betAmount)
              THEN BetAnswer("Rejected", 400, MsgMinBet)
              ELSE IF ExceedsBalance(res.betAmount, users[res.u])
              THEN BetAnswer("Rejected", 400, MsgInsufficient)
              ELSE [res EXCEPT !.state = "Resolving"]
    /\ UNCHANGED <<users, transactions, bets, hashing, now>>

(* Variant: a lost draw is drawn again. *)
BetResolving_Redraw ==
    /\ BetAt("Resolving")
    /\ IF ~Recognized(res.game)
       THEN res' = BetAnswer("Rejected", 400, MsgInvalidGame)
       ELSE IF ResolverThrows(res.game, res.gameData)
       THEN res' = BetAnswer("Rejected", 500, MsgBetError)
       ELSE \E result \in Resolve(res.game, res.betAmount, res.gameData) :
              res' = [res EXCEPT !.result = <<result>>,
                                 !.state = IF result.won THEN "Settling"
                                           ELSE "Resolving"]
    /\ UNCHANGED <<users, transactions, bets, hashing, now>>

(* Lines 256-277: the switch. *)
BetResolving ==
    /\ BetAt("Resolving")
    /\ IF ~Recognized(res.game)
       THEN res' = BetAnswer("Rejected", 400, MsgInvalidGame)
       ELSE IF ResolverThrows(res.game, res.gameData)
       THEN res' = BetAnswer("Rejected", 500, MsgBetError)
       ELSE \E result \in Resolve(res.game, res.betAmount, res.gameData) :
              res' = [res EXCEPT !.result = <<result>>, !.state = "Settling"]
    /\ UNCHANGED <<users, transactions, bets, hashing, now>>

(* Lines 279-311: the ledger, the record and the response. *)
BetSettling ==
    /\ BetAt("Settling")
    /\ LET user == users[res.u]
           result == res.result[1]
       IN  /\ users' = [users EXCEPT ![res.u] = SettleBet(user, res.betAmount, result)]
           /\ now' \in Date
           /\ bets' = MapSet(bets,
                  BetRecord(user, res.game, res.betAmount, result, now'))
    /\ res' = BetAnswer("Recorded", 200, "")
    /\ UNCHANGED <<transactions, hashing>>

BetNext ==
    \/ \E u \in 1..Len(users), r \in BetRequests, betAmount \in BetAmounts :
            BetReceived(u, r.game, betAmount, r.gameData)
    \/ BetValidating
    \/ BetResolving
    \/ BetSettling
    \/ ~BetRunning /\ \E input \in RegInputs : Register(input)
    \/ ~BetRunning /\ \E input \in RegInputs : RegisterHashed(input)
    \/ ~BetRunning /\ \E u \in 1..Len(users), amount \in DepositAmounts :
            Deposit(u, amount)
    \/ ~BetRunning /\ \E u \in 1..Len(users), amount \in WithdrawAmounts,
                         destination \in Destinations :
            Withdraw(u, amount, destination)

(* A handler that has been entered runs on: its blocks are always taken. *)
BetSpec ==
    /\ Init
    /\ [][BetNext]_vars
    /\ WF_vars(BetValidating \/ BetResolving \/ BetSettling)

-----------------------------------------------------------------------------
(* The game logic functions on their own: a call is drawn with its stake,  *)
(* its gameData and what Math.random will give, and the function of the    *)
(* game is applied to it.                                                  *)

GameStakes == {Kz(100), Kz(101), Kz(500)}
SelectedNumbers == { <<n>> : n \in 1..26 } \cup { <<>> }
Choices == { <<"heads">>, <<"tails">>, <<"edge">>, <<>> }

GameCall(game, betAmount, gameData, random) ==
    [op |-> game, status |-> 0, message |-> "",
     betAmount |-> betAmount, gameData |-> gameData, random |-> random]

GameResult(call, result) ==
    [op |-> call.op, status |-> 200, message |-> "",
     call |-> call, result |-> result]

GamesInit ==
    /\ users = <<>>
    /\ transactions = <<>>
    /\ bets = <<>>
    /\ hashing = EmptyBag
    /\ now = 0
    /\ \E betAmount \in GameStakes :
         \/ \E n \in SelectedNumbers, winningNumber \in 1..25 :
              res = GameCall("numbers", betAmount,
                             [selectedNumber |-> n], winningNumber)
         \/ \E draws \in (0..6) \X (0..6) \X (0..6) :
              res = GameCall("slots", betAmount, <<>>, draws)
         \/ \E prizeIndex \in 0..7 :
              res = GameCall("wheel", betAmount, <<>>, prizeIndex)
         \/ \E c \in Choices, flip \in {"heads", "tails"} :
              res = GameCall("coin", betAmount, [choice |-> c], flip)

CallNumbersGame ==
    /\ res.op = "numbers" /\ res.status = 0
    /\ res' = GameResult(res,
                 processNumbersGame(res.betAmount, res.gameData, res.random))
    /\ UNCHANGED <<users, transactions, bets, hashing, now>>

CallSlotsGame ==
    /\ res.op = "slots" /\ res.status = 0
    /\ res' = GameResult(res, processSlotsGame(res.betAmount, res.random))
    /\ UNCHANGED <<users, transactions, bets, hashing, now>>

CallWheelGame ==
    /\ res.op = "wheel" /\ res.status = 0
    /\ res' = GameResult(res, processWheelGame(res.betAmount, res.random))
    /\ UNCHANGED <<users, transactions, bets, hashing, now>>

CallCoinGame ==
    /\ res.op = "coin" /\ res.status = 0
    /\ res' = GameResult(res,
                 processCoinGame(res.betAmount, res.gameData, res.random))
    /\ UNCHANGED <<users, transactions, bets, hashing, now>>

GamesNext ==
    \/ CallNumbersGame
    \/ CallSlotsGame
    \/ CallWheelGame
    \/ CallCoinGame

GamesSpec == GamesInit /\ [][GamesNext]_vars

-----------------------------------------------------------------------------
(* Vocabulary of the properties *)

Accounts == 1..Len(users)

(* The record a step appended to a log, as a sequence of length 0 or 1. *)
Appended(log, logAfter) ==
    IF Len(logAfter) = Len(log) + 1 /\ SubSeq(logAfter, 1, Len(log)) = log
    THEN <<logAfter[Len(logAfter)]>> ELSE <<>>

(* What a recorded bet adds to the balance: -stake, plus the prize on a win. *)
BetDelta(bet) == (0 - bet.betAmount) + (IF bet.won THEN bet.prize ELSE 0)

(* An amount of half Kwanzas that is a whole number of Kwanzas. *)
IsWholeKz(x) == x % 2 = 0

Reverse(s) == [i \in 1..Len(s) |-> s[Len(s) + 1 - i]]

-----------------------------------------------------------------------------
(* C1: after any sequence of register, placeBet, deposit and withdraw      *)
(* requests, accepted or rejected, no account has a negative balance.      *)
C1_BalanceNeverNegative ==
    \A u \in Accounts : users[u].balance >= 0

(* An account emptied by a withdrawal on which a bet was then refused. *)
C1_Witness ==
    /\ \E u \in Accounts : users[u].balance = 0
    /\ Len(transactions) > 0
    /\ res.op = "placeBet" /\ res.message = MsgInsufficient

(* C2: every step that records a bet applies exactly that bet's delta:     *)
(* the balance moves by -stake (+prize on a win), totalBet by the stake,   *)
(* totalWon by the prize of a win, totalBets by one, and at most one bet   *)
(* is recorded per step; so the balance of an account moves, over any      *)
(* interleaving of bets, by the sum of the deltas of its recorded bets.    *)
C2_NoLostUpdate ==
    [][ LET recorded == Appended(bets, bets') IN
        /\ Len(bets') \in {Len(bets), Len(bets) + 1}
        /\ Len(bets') = Len(bets) + 1 => recorded # <<>>
        /\ \A u \in Accounts :
             LET before == users[u]
                 after == users'[u]
             IN  IF recorded # <<>> /\ recorded[1].userId = before.id
                 THEN /\ after.balance - before.balance = BetDelta(recorded[1])
                      /\ after.totalBet - before.totalBet = recorded[1].betAmount
                      /\ after.totalWon - before.totalWon =
                            (IF recorded[1].won THEN recorded[1].prize ELSE 0)
                      /\ after.totalBets - before.totalBets = 1
                 ELSE /\ after.totalBet = before.totalBet
                      /\ after.totalWon = before.totalWon
                      /\ after.totalBets = before.totalBets
                      /\ res'.op = "placeBet" => after.balance = before.balance
      ]_vars

(* Two bets of one account recorded in the same millisecond, one of them won. *)
C2_Witness ==
    \E u \in Accounts :
        LET mine == BetsOf(users[u].id) IN
        /\ Len(mine) >= 2
        /\ mine[1].timestamp = mine[2].timestamp
        /\ \E i \in 1..Len(mine) : mine[i].won

(* C3: the affordability check and the debit are one step: whenever a step *)
(* records a bet or a withdrawal, the stake or amount it debits is at most *)
(* the balance the account has in the state the step starts from.          *)
C3_CheckAndDebitAtomic ==
    [][ LET bet == Appended(bets, bets')
            transaction == Appended(transactions, transactions')
        IN  \A u \in Accounts :
              /\ (bet # <<>> /\ bet[1].userId = users[u].id)
                    => bet[1].betAmount <= users[u].balance
              /\ ( /\ transaction # <<>>
                   /\ transaction[1].userId = users[u].id
                   /\ transaction[1].type = "withdraw" )
                    => transaction[1].amount <= users[u].balance
      ]_vars

(* A withdrawal took the whole balance and a later bet or withdrawal on    *)
(* the emptied account was refused for want of balance.                    *)
C3_Witness ==
    /\ \E i \in 1..Len(transactions) :
         /\ transactions[i].type = "withdraw"
         /\ \E u \in Accounts :
              users[u].id = transactions[i].userId /\ users[u].balance = 0
    /\ res.status = 400 /\ res.message = MsgInsufficient

(* C4: a step that answers a placeBet request with an error (stake below   *)
(* 100, stake above balance, unrecognized game, resolver throwing) leaves  *)
(* every account and both logs as they were.                               *)
C4_RejectedBetChangesNothing ==
    [][ (res'.op = "placeBet" /\ res'.status # 200)
            => UNCHANGED <<users, bets, transactions>>
      ]_vars

(* A bet was refused with the 500 of a throwing resolver while a bet is on record. *)
C4_Witness ==
    /\ res.op = "placeBet" /\ res.status = 500
    /\ Len(bets) > 0

(* C5: with whole-Kwanza stakes, deposits and withdrawals, every balance   *)
(* and every totalWon is a whole number of Kwanzas.                        *)
C5_WholeBalances ==
    \A u \in Accounts :
        IsWholeKz(users[u].balance) /\ IsWholeKz(users[u].totalWon)

(* The game data the design calls invalid: numbers without a selectedNumber *)
(* in 1..25, coin without a choice among heads and tails.                  *)
InvalidGameData(game, gameData) ==
    \/ /\ game = "numbers"
       /\ \/ gameData = <<>>
          \/ gameData[1].selectedNumber = <<>>
          \/ gameData[1].selectedNumber[1] \notin 1..25
    \/ /\ game = "coin"
       /\ \/ gameData = <<>>
          \/ gameData[1].choice = <<>>
          \/ gameData[1].choice[1] \notin {"heads", "tails"}

(* C6: a placeBet whose game data is invalid is answered with an error,    *)
(* debits nothing and appends no bet record.                               *)
C6_InvalidGameDataRejected ==
    [][ \A u \in Accounts, game \in Games, betAmount \in BetAmounts,
           gameData \in GameDatas :
            ( /\ res'.op = "placeBet"
              /\ InvalidGameData(game, gameData)
              /\ PlaceBet(u, game, betAmount, gameData) )
            => (res'.status # 200 /\ UNCHANGED <<users, bets>>)
      ]_vars

(* C7 as stated: every withdraw whose amount exceeds the balance is        *)
(* answered with the insufficient-balance error, changes no balance and    *)
(* creates no transaction record.                                          *)
C7_AsStated ==
    [][ \A u \in Accounts, amount \in WithdrawAmounts, destination \in Destinations :
            ( /\ res'.op = "withdraw"
              /\ amount > users[u].balance
              /\ Withdraw(u, amount, destination) )
            => ( /\ res'.status = 400 /\ res'.message = MsgInsufficient
                 /\ UNCHANGED <<users, transactions>> )
      ]_vars

(* C7, amended: every withdraw whose amount exceeds the balance is refused, *)
(* changes no balance and creates no transaction record; the error is the  *)
(* below-minimum one when the amount is under 1000 (that check comes       *)
(* first) and the insufficient-balance one otherwise.                      *)
C7_ExcessWithdrawRefused ==
    [][ \A u \in Accounts, amount \in WithdrawAmounts, destination \in Destinations :
            ( /\ res'.op = "withdraw"
              /\ amount > users[u].balance
              /\ Withdraw(u, amount, destination) )
            => ( /\ res'.status = 400
                 /\ res'.message = IF amount < MinWithdraw THEN MsgMinWithdraw
                                   ELSE MsgInsufficient
                 /\ UNCHANGED <<users, transactions>> )
      ]_vars

(* A withdrawal was refused for want of balance on an account that a lost  *)
(* bet had brought under the amount asked for.                             *)
C7_Witness ==
    /\ res.op = "withdraw" /\ res.message = MsgInsufficient
    /\ \E u \in Accounts : users[u].balance > 0 /\ users[u].balance < WelcomeBonus
    /\ transactions = <<>>

(* C8: a deposit under 1000 is refused with the below-minimum error and    *)
(* changes no balance and no log; a deposit of 1000 or more adds exactly   *)
(* its amount to the balance and appends exactly one record, a completed   *)
(* deposit of that amount owned by the account.                            *)
C8_DepositMinimum ==
    [][ \A u \in Accounts, amount \in DepositAmounts :
            (res'.op = "deposit" /\ Deposit(u, amount))
            => IF amount < MinDeposit
               THEN /\ res'.status = 400 /\ res'.message = MsgMinDeposit
                    /\ UNCHANGED <<users, transactions>>
               ELSE /\ res'.status = 200
                    /\ users'[u].balance = users[u].balance + amount
                    /\ Len(Appended(transactions, transactions')) = 1
                    /\ LET t == Appended(transactions, transactions')[1] IN
                         /\ t.type = "deposit" /\ t.status = "completed"
                         /\ t.amount = amount /\ t.userId = users[u].id
      ]_vars

(* A deposit of exactly 1000 went through. *)
C8_Witness ==
    /\ res.op = "deposit" /\ res.status = 200
    /\ Len(transactions) > 0
    /\ transactions[Len(transactions)].amount = MinDeposit
    /\ \E u \in Accounts : users[u].balance = WelcomeBonus + MinDeposit

(* C9 as stated: a placeBet with an unrecognized game tag is answered with *)
(* the invalid-game error and changes no account and no bet record.        *)
C9_AsStated ==
    [][ res'.op = "placeBet" =>
        \A u \in Accounts, game \in GameTags \ Games, betAmount \in BetAmounts :
            PlaceBet(u, game, betAmount, <<>>)
            => ( /\ res'.status = 400 /\ res'.message = MsgInvalidGame
                 /\ UNCHANGED <<users, bets>> )
      ]_vars

(* C9, amended: a placeBet with an unrecognized game tag is refused and    *)
(* changes no account and no bet record; the error is the invalid-game one *)
(* when the stake is at least 100 and at most the balance, and the error   *)
(* of the stake check that fails otherwise (those checks come first).      *)
C9_UnknownGameRefused ==
    [][ res'.op = "placeBet" =>
        \A u \in Accounts, game \in GameTags \ Games, betAmount \in BetAmounts :
            PlaceBet(u, game, betAmount, <<>>)
            => ( /\ res'.status = 400
                 /\ res'.message = IF betAmount < MinBet THEN MsgMinBet
                                   ELSE IF betAmount > users[u].balance
                                        THEN MsgInsufficient
                                   ELSE MsgInvalidGame
                 /\ UNCHANGED <<users, bets>> )
      ]_vars

(* A bet on an unrecognized game was answered with the invalid-game error. *)
C9_Witness ==
    res.op = "placeBet" /\ res.status = 400 /\ res.message = MsgInvalidGame

(* C10: the bet history of an account holds at most 50 records, all owned  *)
(* by the account, most recently recorded first, and they are the most     *)
(* recently recorded ones: it is the account's bets in reverse order of    *)
(* recording, cut at 50.                                                   *)
C10_MostRecentFirst ==
    \A u \in Accounts :
        LET history == BetHistory(users[u].id) IN
        /\ Len(history) <= HistoryLimit
        /\ \A i \in 1..Len(history) : history[i].userId = users[u].id
        /\ history = Slice(Reverse(BetsOf(users[u].id)), HistoryLimit)

(* C11: a step that answers a balance, bet-history or transaction-history *)
(* request leaves accounts, logs, pending registrations and clock as they  *)
(* were, and the answer it gives is the answer the same request of the     *)
(* same account gets in the state it leaves, so that a repeated request    *)
(* reads the same result.  (Only these three handlers answer under these   *)
(* three names; a step that leaves the answer in place is not one of       *)
(* them, or changes nothing at all.)                                       *)
C11_ReadsChangeNothing ==
    [][ ( /\ res'.op \in {"balance", "betHistory", "transactionHistory"}
          /\ res' # res ) =>
            /\ UNCHANGED <<users, transactions, bets, hashing, now>>
            /\ \E u \in Accounts :
                 /\ users[u].id = res'.userId
                 /\ res'.op = "balance" => res' = BalanceAnswer(u)'
                 /\ res'.op = "betHistory" => res' = BetHistoryAnswer(u)'
                 /\ res'.op = "transactionHistory" =>
                        res' = TransactionHistoryAnswer(u)'
      ]_vars

(* The bet history of an account was read with two bets on record, the     *)
(* later one stamped later, so that a sort of the log itself would move it. *)
C11_Witness ==
    /\ res.op = "betHistory"
    /\ Len(res.bets) = 2
    /\ Len(bets) = 2
    /\ bets[1].timestamp < bets[2].timestamp

(* C12: for every stake and every segment i of 0..7 the wheel answers     *)
(* with segment i, with the i-th multiplier of [2, 0, 1.5, 0, 3, 0, 5, 0], *)
(* with won exactly when that multiplier is above zero, and with a prize   *)
(* of stake times multiplier (both sides doubled below, the multipliers    *)
(* being kept as twice their value).                                       *)
C12_WheelTable ==
    (res.op = "wheel" /\ res.status = 200) =>
        LET i == res.call.random
            twice == <<2 * 2, 0, 3, 0, 2 * 3, 0, 2 * 5, 0>>
        IN  /\ res.result.segment = i
            /\ res.result.multiplier = twice[i + 1]
            /\ res.result.won <=> twice[i + 1] > 0
            /\ 2 * res.result.prize = res.call.betAmount * twice[i + 1]
            /\ ~res.result.won => res.result.prize = 0

(* The wheel stopped at segment 6 on a stake of 500 and paid 2500. *)
C12_Witness ==
    /\ res.op = "wheel" /\ res.status = 200
    /\ res.call.random = 6
    /\ res.call.betAmount = Kz(500)
    /\ res.result.won
    /\ res.result.prize = Kz(2500)

(* C13: for every stake, every selected number of 1..25 and every winning  *)
(* number of 1..25, the numbers game is won exactly when the two numbers   *)
(* are equal, and pays 24 times the stake when won and nothing otherwise.  *)
C13_NumbersPayout ==
    ( /\ res.op = "numbers" /\ res.status = 200
      /\ \E n \in 1..25 : res.call.gameData.selectedNumber = <<n>> ) =>
        LET selected == res.call.gameData.selectedNumber[1]
            winning == res.call.random
        IN  /\ winning \in 1..25
            /\ res.result.won <=> winning = selected
            /\ res.result.prize =
                  (IF winning = selected THEN res.call.betAmount * 24 ELSE 0)

(* Number 25 was selected and drawn on a stake of 100, and 2400 was paid. *)
C13_Witness ==
    /\ res.op = "numbers" /\ res.status = 200
    /\ res.call.gameData.selectedNumber = <<25>>
    /\ res.call.random = 25
    /\ res.call.betAmount = Kz(100)
    /\ res.result.won
    /\ res.result.prize = Kz(2400)

(* C14: a step of a placeBet request that settles the bet on the ledger   *)
(* and appends no BetRecord answers with an error that is neither the      *)
(* success answer nor the answer of any failure that leaves the ledger     *)
(* alone (stake under the minimum, stake over the balance, unrecognized    *)
(* game, resolver throwing).                                               *)
C14_UnloggedBetSurfacedDistinctly ==
    [][ (res'.op = "placeBet" /\ users' # users /\ bets' = bets) =>
            /\ res'.status # 200
            /\ <<res'.status, res'.message>> \notin
                  { <<400, MsgMinBet>>, <<400, MsgInsufficient>>,
                    <<400, MsgInvalidGame>>, <<500, MsgBetError>> }
      ]_vars

(* The state of the bet a frame or an answer of the bet handler is in. *)
BetState == IF res.op = "placeBet" THEN res.state ELSE "None"

(* C15: a bet moves only Validating -> Resolving -> Settling -> Recorded,  *)
(* or from Validating or Resolving to Rejected, and Recorded and Rejected  *)
(* are left only by a new request; Validating and Resolving leave the      *)
(* ledger and the log alone and only Resolving draws a result, once; the   *)
(* step to Recorded debits the stake once, credits the prize when and only *)
(* when the bet is won, and appends one BetRecord carrying that draw; and  *)
(* every bet that is running reaches Recorded or Rejected.                 *)
C15_BetLifecycle ==
    /\ [][ /\ BetState' # BetState =>
                <<BetState, BetState'>> \in
                  { <<"None", "Validating">>, <<"Recorded", "Validating">>,
                    <<"Rejected", "Validating">>,
                    <<"Validating", "Resolving">>, <<"Validating", "Rejected">>,
                    <<"Resolving", "Settling">>, <<"Resolving", "Rejected">>,
                    <<"Settling", "Recorded">>,
                    <<"Recorded", "None">>, <<"Rejected", "None">> }
           /\ (BetRunning /\ BetState' = BetState) => res' = res
           /\ (BetRunning /\ BetState # "Settling") =>
                UNCHANGED <<users, bets, transactions>>
           /\ (BetRunning /\ BetState' = "Settling") =>
                /\ res.result = NoResult
                /\ Len(res'.result) = 1
           /\ BetAt("Settling") =>
                LET before == users[res.u]
                    after == users'[res.u]
                    drawn == res.result[1]
                    recorded == Appended(bets, bets')
                IN  /\ BetState' = "Recorded"
                    /\ after.balance = (before.balance - res.betAmount)
                          + (IF drawn.won THEN drawn.prize ELSE 0)
                    /\ after.totalBet = before.totalBet + res.betAmount
                    /\ after.totalBets = before.totalBets + 1
                    /\ recorded # <<>>
                    /\ recorded[1].userId = before.id
                    /\ recorded[1].betAmount = res.betAmount
                    /\ recorded[1].won = drawn.won
                    /\ recorded[1].prize = drawn.prize
                    /\ \A v \in Accounts \ {res.u} : users'[v] = users[v]
         ]_vars
    /\ BetRunning ~> (BetState \in {"Recorded", "Rejected"})

(* A won bet was recorded after a lost one. *)
C15_Witness ==
    /\ BetState = "Recorded"
    /\ Len(bets) = 2
    /\ bets[2].won
    /\ ~bets[1].won

(* C16: in every step, every record of the bet log and of the transaction *)
(* log is still there afterwards, at its place and with every field as it  *)
(* was, the status of a withdrawal (pending) and of a deposit (completed)  *)
(* included.                                                               *)
C16_LogsAppendOnly ==
    [][ /\ Len(bets') >= Len(bets)
        /\ \A i \in 1..Len(bets) : bets'[i] = bets[i]
        /\ Len(transactions') >= Len(transactions)
        /\ \A i \in 1..Len(transactions) : transactions'[i] = transactions[i]
      ]_vars

(* A deposit is still on the log, completed, after a later withdrawal was  *)
(* recorded behind it as pending.                                          *)
C16_Witness ==
    /\ Len(transactions) = 2
    /\ transactions[1].type = "deposit" /\ transactions[1].status = "completed"
    /\ transactions[2].type = "withdraw" /\ transactions[2].status = "pending"
    /\ transactions[1].timestamp < transactions[2].timestamp
    /\ res.op = "withdraw" /\ res.status = 200

(* The step is a block of the bet handler running for account u, or a     *)
(* deposit or withdraw request issued for account u.                       *)
IssuedFor(u) ==
    \/ /\ BetRunning /\ res.u = u
       /\ BetValidating \/ BetResolving \/ BetSettling
    \/ /\ res'.op = "deposit"
       /\ \E amount \in DepositAmounts : Deposit(u, amount)
    \/ /\ res'.op = "withdraw"
       /\ \E amount \in WithdrawAmounts, destination \in Destinations :
            Withdraw(u, amount, destination)

(* The step leaves the ledger of every account but a as it was and adds   *)
(* no record owned by another account than a.                              *)
OthersUntouched(a) ==
    /\ \A b \in Accounts \ {a} :
          /\ users'[b].balance = users[b].balance
          /\ users'[b].totalBet = users[b].totalBet
          /\ users'[b].totalWon = users[b].totalWon
          /\ users'[b].totalBets = users[b].totalBets
    /\ \A i \in (Len(bets) + 1)..Len(bets') : bets'[i].userId = users[a].id
    /\ \A i \in (Len(transactions) + 1)..Len(transactions') :
          transactions'[i].userId = users[a].id

(* C17: a step that is a bet, deposit or withdraw request issued for one   *)
(* account leaves balance, totalBet, totalWon and totalBets of every other *)
(* account as they were and appends no record owned by another account.    *)
(* The account of a bet is read off the frame of the running handler.      *)
C17_OtherAccountsUntouched ==
    [][ \A a \in Accounts : IssuedFor(a) => OthersUntouched(a) ]_vars

(* The second of two accounts has a bet on record and the first one has    *)
(* nothing but its welcome bonus.                                          *)
C17_Witness ==
    /\ Len(users) = 2
    /\ Len(bets) = 1
    /\ bets[1].userId = users[2].id
    /\ users[2].totalBets = 1
    /\ users[1].balance = WelcomeBonus /\ users[1].totalBets = 0
    /\ BetState = "Recorded"

(* The sum of a sequence of numbers. *)
RECURSIVE Sum(_)
Sum(numbers) ==
    IF numbers = <<>> THEN 0
    ELSE Sum(SubSeq(numbers, 1, Len(numbers) - 1)) + numbers[Len(numbers)]

AmountsOf(userId, type) ==
    LET mine == TransactionsOf(userId) IN
    [i \in 1..Len(mine) |-> IF mine[i].type = type THEN mine[i].amount ELSE 0]

Deposited(userId) == Sum(AmountsOf(userId, "deposit"))

Withdrawn(userId) == Sum(AmountsOf(userId, "withdraw"))

(* C18: in every state the balance of each account is the registration    *)
(* bonus of 100000, plus the amounts of its deposit records, minus the     *)
(* amounts of its withdraw records, minus its totalBet, plus its totalWon. *)
C18_LedgerConservation ==
    \A u \in Accounts :
        users[u].balance =
            (((Kz(100000) + Deposited(users[u].id)) - Withdrawn(users[u].id))
                - users[u].totalBet) + users[u].totalWon

(* An account with a deposit on record and a bet it won. *)
C18_Witness ==
    \E u \in Accounts :
        /\ Deposited(users[u].id) > 0
        /\ users[u].totalWon > 0
        /\ users[u].totalBet > 0

C20_UniqueEmailAndPhone ==
    \A a \in Accounts : \A b \in Accounts \ {a} :
        /\ users[a].email # users[b].email
        /\ users[a].phone # users[b].phone

====
